---- MODULE Spec2Model ----
(***************************************************************************)
(* ItemFactory (src/item/itemfactory.cpp): the registry of item loader     *)
(* plugins, its ordering, its enablement set, item creation with the       *)
(* transform chain, cycling to the next/previous loader, aggregation of    *)
(* the formats to save and the load/save/itemsLoaded dispatch.             *)
(***************************************************************************)
EXTENDS Integers, Sequences, FiniteSets, TLC

\* ------------------------------------------------------------------ bounds
MaxModules == 3       \* library files found in the plugin directory
MaxHandles == 2       \* widget addresses that can be live at once
MaxAttempts == 4      \* createItem calls recorded in one otherItemLoader call
MaxOrderLen == 2      \* length of the name list given to setPluginPriority
MaxPriority == 2      \* plugin priorities are 1..MaxPriority
MaxWrite == 1         \* bytes one loader's saveItems may write
MaxFormats == 2       \* formats one loader declares

Modules == 1..MaxModules
Handles == 1..MaxHandles
Priorities == 1..MaxPriority
PluginNames == {"a", "b", "c"}

\* A null ItemLoaderInterfacePtr (the built-in DummyItem has no loader).
None == 0
\* A NULL ItemWidget pointer.
NoItem == 0

\* MIME types: "text/plain" is a literal of formatsToSave; the two internal
\* markers are declared in common/client_server.h.
mimeText == "text/plain"
mimeItemNotes == "application/x-copyq-item-notes"
mimeItems == "application/x-copyq-item"
mimeOther == "image/png"
mimeHtml == "text/html"
Formats == {mimeText, mimeItemNotes, mimeItems, mimeOther, mimeHtml}

VARIABLES
    plugins,            \* per module: what the file is, its name(), its priority()
    m_loaders,          \* QList<ItemLoaderInterfacePtr>, as module ids
    m_disabledLoaders,  \* QSet<ItemLoaderInterfacePtr>
    m_loaderChildren,   \* QMap<QObject*, ItemLoaderInterfacePtr>
    live,               \* widget addresses of live widgets
    connected,          \* live widgets whose destroyed() signal is connected
    items,              \* live widgets of the items createItem has returned
    destroyedItems,     \* addresses of destroyed widgets that createItem returned
    pc,                 \* "idle", "cycle" inside the loop of otherItemLoader, or
                        \* "done" when a call has returned to its caller
    cyc,                \* the locals of the running otherItemLoader call
    calls,              \* plugin operations invoked by the latest call, in order
    last                \* the latest call: its arguments and what it returned

vars == <<plugins, m_loaders, m_disabledLoaders, m_loaderChildren, live,
          connected, items, destroyedItems, pc, cyc, calls, last>>

\* ----------------------------------------------------------------- helpers
RECURSIVE SeqsUpTo(_, _)
SeqsUpTo(S, n) ==
    IF n = 0 THEN {<<>>}
    ELSE LET shorter == SeqsUpTo(S, n - 1)
         IN  shorter \cup {Append(s, x) : s \in {t \in shorter : Len(t) = n - 1}, x \in S}

Range(s) == {s[k] : k \in 1..Len(s)}

Contains(s, x) == x \in Range(s)

\* QList::indexOf / QStringList::indexOf: first 0-based position, or -1.
IndexOf(s, x) ==
    IF Contains(s, x)
    THEN (CHOOSE k \in 1..Len(s) : s[k] = x /\ \A j \in 1..(k - 1) : s[j] # x) - 1
    ELSE -1

\* m_loaders[i] with the 0-based index of the code.
LoaderAt(i) == m_loaders[i + 1]

MapPutIfAbsent(f, k, v) == [x \in (DOMAIN f) \cup {k} |-> IF x \in DOMAIN f THEN f[x] ELSE v]

\* QMap::operator[]= : insert or overwrite.
MapPut(f, k, v) == [x \in (DOMAIN f) \cup {k} |-> IF x = k THEN v ELSE f[x]]

\* QMap::remove.
MapRemove(f, k) == [x \in (DOMAIN f) \ {k} |-> f[x]]

Orderings(S) ==
    {p \in [1..Cardinality(S) -> S] : \A a, b \in 1..Cardinality(S) : a # b => p[a] # p[b]}

\* qSort(begin, end, lessThan): some ordering of the same elements in which
\* no element is lessThan an earlier one; equal elements land in any order.
\* lessThan is the set of the pairs <<lhs, rhs>> the comparator answers true for.
QSort(s, lessThan) ==
    {[k \in 1..Len(s) |-> s[p[k]]] : p \in
        {q \in Orderings(1..Len(s)) :
            \A a, b \in 1..Len(s) : a < b => <<s[q[b]], s[q[a]]>> \notin lessThan}}

Name(l) == plugins[l].name
Priority(l) == plugins[l].priority

PriorityLessThanFlipped(lhs, rhs) == Priority(lhs) < Priority(rhs)

priorityLessThan(lhs, rhs) == Priority(lhs) > Priority(rhs)

PluginSorterFlipped(pluginNames, lhs, rhs) ==
    LET l == IndexOf(pluginNames, Name(lhs))
        r == IndexOf(pluginNames, Name(rhs))
    IN  IF l = -1 THEN (r = -1) /\ Priority(lhs) > Priority(rhs)
        ELSE IF r = -1 THEN FALSE
        ELSE l < r

PluginSorter(pluginNames, lhs, rhs) ==
    LET l == IndexOf(pluginNames, Name(lhs))
        r == IndexOf(pluginNames, Name(rhs))
    IN  IF l = -1 THEN (r = -1) /\ Priority(lhs) > Priority(rhs)
        ELSE IF r = -1 THEN TRUE
        ELSE l < r

IsLoaderEnabledAlways(loader) == TRUE

isLoaderEnabled(loader) == loader \notin m_disabledLoaders

\* One entry of the record of plugin operations invoked: the operation, the
\* loader it was invoked on, what it returned (an item's widget or NoItem; 1 or
\* 0 for a bool) and what it was entered with (the item given to transform,
\* the file position given to saveItems).
Call(op, loader, ret, arg) == [op |-> op, loader |-> loader, ret |-> ret, arg |-> arg]

NoCall == <<>>

Last0 ==
    [op |-> "init", loader |-> None, w |-> NoItem, dir |-> 0, enabled |-> TRUE,
     names |-> <<>>, item |-> NoItem, creator |-> None, ok |-> FALSE,
     formats |-> <<>>, declared |-> <<>>, tried |-> <<>>, filePos |-> 0]

Cyc0 == [w |-> NoItem, dir |-> 0, currentIndex |-> -1, i |-> -1]

\* ------------------------------------------------------------ construction
RECURSIVE DiscoveredAll(_)
DiscoveredAll(n) ==
    IF n = 0 THEN <<>> ELSE Append(DiscoveredAll(n - 1), n)

\* loadPlugins: the files that instantiate and implement ItemLoaderInterface,
\* in directory order.
RECURSIVE Discovered(_)
Discovered(n) ==
    IF n = 0 THEN <<>>
    ELSE IF plugins[n].kind = "loader" THEN Append(Discovered(n - 1), n)
    ELSE Discovered(n - 1)

PluginFiles ==
    [kind : {"loader"}, name : PluginNames, priority : Priorities]
    \cup [kind : {"broken", "foreign"}, name : {""}, priority : {0}]

\* The plugin directories of the dispatch model: fixed names and priorities,
\* any file may fail to load.
DefaultName(m) == IF m % 3 = 1 THEN "a" ELSE IF m % 3 = 2 THEN "b" ELSE "c"
DefaultPriority(m) == IF m % 2 = 1 THEN MaxPriority ELSE 1

InitFactory ==
    /\ m_loaders \in QSort(Discovered(MaxModules),
                            {c \in Modules \X Modules : priorityLessThan(c[1], c[2])})
    /\ m_disabledLoaders = {}
    /\ m_loaderChildren = <<>>
    /\ live = {}
    /\ connected = {}
    /\ items = {}
    /\ destroyedItems = {}
    /\ pc = "idle"
    /\ cyc = Cyc0
    /\ calls = NoCall
    /\ last = Last0

Init ==
    /\ plugins \in {p \in [Modules -> PluginFiles] :
            \A m \in Modules : p[m].kind = "loader" =>
                p[m].name = DefaultName(m) /\ p[m].priority = DefaultPriority(m)}
    /\ InitFactory
\* A call has returned: every handler runs to completion on the one thread
\* before the next starts. The finished call's record is dropped.
Returned ==
    /\ pc = "done"
    /\ pc' = "idle"
    /\ calls' = NoCall
    /\ last' = Last0
    /\ UNCHANGED <<plugins, m_loaders, m_disabledLoaders, m_loaderChildren, live,
                   connected, items, destroyedItems, cyc>>

\* -------------------------------------------------------------- enablement
SetLoaderEnabledClears(disabled, loader, enabled) ==
    IF enabled THEN {} ELSE disabled \cup {loader}

\* The body of setLoaderEnabled on the QSet.
setLoaderEnabled(disabled, loader, enabled) ==
    IF enabled THEN disabled \ {loader} ELSE disabled \cup {loader}

SetLoaderEnabled ==
    /\ pc = "idle"
    /\ \E loader \in Range(m_loaders), enabled \in BOOLEAN :
           /\ pc' = "done"
           /\ m_disabledLoaders' = setLoaderEnabled(m_disabledLoaders, loader, enabled)
           /\ calls' = NoCall
           /\ last' = [Last0 EXCEPT !.op = "setLoaderEnabled", !.loader = loader,
                                    !.enabled = enabled]
           /\ UNCHANGED <<plugins, m_loaders, m_loaderChildren, live, connected,
                          items, destroyedItems, cyc>>

\* ---------------------------------------------------------------- ordering
OrderLists == SeqsUpTo(PluginNames, MaxOrderLen)

SetPluginPriority ==
    /\ pc = "idle"
    /\ \E pluginNames \in OrderLists :
           /\ pc' = "done"
           /\ m_loaders' \in QSort(m_loaders,
                  {c \in Range(m_loaders) \X Range(m_loaders) :
                      PluginSorter(pluginNames, c[1], c[2])})
           /\ calls' = NoCall
           /\ last' = [Last0 EXCEPT !.op = "setPluginPriority", !.names = pluginNames]
           /\ UNCHANGED <<plugins, m_disabledLoaders, m_loaderChildren, live, connected,
                          items, destroyedItems, cyc>>

\* ----------------------------------------------------------- item creation
FreeHandles == Handles \ live

\* Widget addresses are handed out lowest first: the widget of the item a
\* create (or DummyItem) constructs, NoItem when no address is left.
NewWidget ==
    IF FreeHandles = {} THEN NoItem
    ELSE CHOOSE h \in FreeHandles : \A g \in FreeHandles : h <= g

\* The widget of the item a transform returns in place of the one it got.
WrapperWidget ==
    IF FreeHandles \ {NewWidget} = {} THEN NewWidget
    ELSE CHOOSE h \in FreeHandles \ {NewWidget} : \A g \in FreeHandles \ {NewWidget} : h <= g

\* What the plugins answer during one call: whether loader l's create returns
\* an item (creates[l]) and whether its transform returns a new one (wraps[l]).
Answers == [Range(m_loaders) -> BOOLEAN]

\* transformItem, from position k of m_loaders on (k = 1 is the whole loop).
RECURSIVE transformItemFrom(_, _, _)
transformItemFrom(k, item, wraps) ==
    IF k > Len(m_loaders) THEN [item |-> item, log |-> NoCall]
    ELSE LET loader == m_loaders[k]
         IN  IF isLoaderEnabled(loader)
             THEN LET newItem == IF wraps[loader] THEN WrapperWidget ELSE NoItem
                      rest == transformItemFrom(k + 1,
                                  IF newItem # NoItem THEN newItem ELSE item, wraps)
                  IN  [item |-> rest.item,
                       log |-> <<Call("transform", loader, newItem, item)>> \o rest.log]
             ELSE transformItemFrom(k + 1, item, wraps)

TransformItemKeepsInput(item, wraps) ==
    [transformItemFrom(1, item, wraps) EXCEPT !.item = item]

\* ItemFactory::transformItem.
transformItem(item, wraps) == transformItemFrom(1, item, wraps)

CreateItemWithUnchecked(loader, creates, wraps) ==
    LET item == IF loader = None \/ creates[loader] THEN NewWidget ELSE NoItem
        made == IF loader = None THEN NoCall
                ELSE <<Call("create", loader, item, NoItem)>>
    IN  IF item # NoItem
        THEN LET t == transformItem(item, wraps)
             IN  [item |-> t.item, creator |-> loader, log |-> made \o t.log]
        ELSE [item |-> NoItem, creator |-> None, log |-> made]

\* createItem(loader, index, parent): the item returned (NoItem for NULL), the
\* loader recorded for it and the plugin operations invoked.
createItemWith(loader, creates, wraps) ==
    IF loader = None \/ isLoaderEnabled(loader)
    THEN LET item == IF loader = None \/ creates[loader] THEN NewWidget ELSE NoItem
             made == IF loader = None THEN NoCall
                     ELSE <<Call("create", loader, item, NoItem)>>
         IN  IF item # NoItem
             THEN LET t == transformItem(item, wraps)
                  IN  [item |-> t.item, creator |-> loader, log |-> made \o t.log]
             ELSE [item |-> NoItem, creator |-> None, log |-> made]
    ELSE [item |-> NoItem, creator |-> None, log |-> NoCall]

\* createItem(index, parent): the foreach over the given loaders, then DummyItem.
RECURSIVE createItemOver(_, _, _)
createItemOver(loaders, creates, wraps) ==
    IF loaders = <<>> THEN createItemWith(None, creates, wraps)
    ELSE LET r == createItemWith(Head(loaders), creates, wraps)
         IN  IF r.item # NoItem THEN r
             ELSE LET rest == createItemOver(Tail(loaders), creates, wraps)
                  IN  [rest EXCEPT !.log = r.log \o @]

Reverse(s) == [k \in 1..Len(s) |-> s[Len(s) + 1 - k]]

CreateItemBackwards(creates, wraps) == createItemOver(Reverse(m_loaders), creates, wraps)

createItem(creates, wraps) == createItemOver(m_loaders, creates, wraps)

ConnectDropped(signals, w) == signals

\* connect(w, SIGNAL(destroyed(QObject*)), SLOT(loaderChildDestroyed(QObject*))).
Connect(signals, w) == signals \cup {w}

\* The end of createItem(loader, index, parent) for a non-null item:
\* m_loaderChildren[w] = loader and the connect; the item exists from here on.
Record(r) ==
    IF r.item # NoItem
    THEN /\ m_loaderChildren' = MapPut(m_loaderChildren, r.item, r.creator)
         /\ connected' = Connect(connected, r.item)
         /\ live' = live \cup {r.item}
         /\ items' = items \cup {r.item}
         /\ destroyedItems' = destroyedItems \ {r.item}
    ELSE UNCHANGED <<m_loaderChildren, connected, live, items, destroyedItems>>

CreateItemWithLoader ==
    /\ pc = "idle"
    /\ FreeHandles # {}
    /\ \E loader \in Range(m_loaders) \cup {None}, ok \in BOOLEAN, wraps \in Answers :
           LET r == createItemWith(loader, [l \in Range(m_loaders) |-> ok], wraps)
           IN  /\ pc' = "done"
               /\ Record(r)
               /\ calls' = r.log
               /\ last' = [Last0 EXCEPT !.op = "createItemWith", !.loader = loader,
                                        !.item = r.item, !.creator = r.creator]
               /\ UNCHANGED <<plugins, m_loaders, m_disabledLoaders, cyc>>

CreateItem ==
    /\ pc = "idle"
    /\ FreeHandles # {}
    /\ \E creates \in Answers, wraps \in Answers :
           LET r == createItem(creates, wraps)
           IN  /\ pc' = "done"
               /\ Record(r)
               /\ calls' = r.log
               /\ last' = [Last0 EXCEPT !.op = "createItem", !.item = r.item,
                                        !.creator = r.creator]
               /\ UNCHANGED <<plugins, m_loaders, m_disabledLoaders, cyc>>

\* ------------------------------------------------------------- destruction
LoaderChildDestroyedKeeps(children, obj) == children

\* The body of loaderChildDestroyed on the QMap.
loaderChildDestroyed(children, obj) == MapRemove(children, obj)

\* A widget is deleted; destroyed(QObject*) reaches the slot if connected.
DestroyWidget ==
    /\ pc = "idle"
    /\ \E w \in live :
           /\ live' = live \ {w}
           /\ connected' = connected \ {w}
           /\ m_loaderChildren' = IF w \in connected
                                  THEN loaderChildDestroyed(m_loaderChildren, w)
                                  ELSE m_loaderChildren
           /\ items' = items \ {w}
           /\ destroyedItems' = IF w \in items THEN destroyedItems \cup {w}
                                ELSE destroyedItems
           /\ UNCHANGED <<plugins, m_loaders, m_disabledLoaders, pc, cyc, calls, last>>

\* A widget that no createItem call returned comes to exist (the caller may
\* hand any ItemWidget to nextItemLoader / previousItemLoader).
OtherWidget ==
    /\ pc = "idle"
    /\ FreeHandles # {}
    /\ live' = live \cup {NewWidget}
    /\ destroyedItems' = destroyedItems \ {NewWidget}
    /\ UNCHANGED <<plugins, m_loaders, m_disabledLoaders, m_loaderChildren,
                   connected, items, pc, cyc, calls, last>>

\* ----------------------------------------------------------------- cycling
\* The wrap-around at the top of the loop body of otherItemLoader.
WrapIndex(i, size) ==
    IF i >= size THEN i % size
    ELSE IF i < 0 THEN size - 1
    ELSE i

IsNullNever(loader) == FALSE

\* currentLoader.isNull() in otherItemLoader.
IsNull(loader) == loader = None

\* otherItemLoader up to the loop: the lookup m_loaderChildren[w], which
\* inserts a null loader for a widget the map does not hold.
OtherItemLoaderStart(dir) ==
    /\ pc = "idle"
    /\ \E w \in live :
           LET known == w \in DOMAIN m_loaderChildren
               currentLoader == IF known THEN m_loaderChildren[w] ELSE None
               currentIndex == IndexOf(m_loaders, currentLoader)
           IN  /\ m_loaderChildren' = IF known THEN m_loaderChildren
                                      ELSE MapPut(m_loaderChildren, w, None)
               /\ calls' = NoCall
               /\ last' = [Last0 EXCEPT !.op = "otherItemLoader", !.w = w, !.dir = dir,
                                        !.loader = currentLoader]
               /\ IF IsNull(currentLoader)
                  THEN pc' = "done" /\ cyc' = Cyc0
                  ELSE /\ pc' = "cycle"
                       /\ cyc' = [w |-> w, dir |-> dir, currentIndex |-> currentIndex,
                                  i |-> currentIndex + dir]
               /\ UNCHANGED <<plugins, m_loaders, m_disabledLoaders, live, connected,
                              items, destroyedItems>>

NextItemLoader == OtherItemLoaderStart(1)

PreviousItemLoader == OtherItemLoaderStart(-1)

\* The loop test i != currentIndex fails: return NULL.
OtherItemLoaderExhausted ==
    /\ pc = "cycle"
    /\ cyc.i = cyc.currentIndex
    /\ pc' = "done"
    /\ cyc' = Cyc0
    /\ UNCHANGED <<plugins, m_loaders, m_disabledLoaders, m_loaderChildren, live,
                   connected, items, destroyedItems, calls, last>>

\* One pass of the loop body: wrap i, createItem(m_loaders[i], ...), return the
\* item or go on with i + dir.
OtherItemLoaderStep ==
    /\ pc = "cycle"
    /\ cyc.i # cyc.currentIndex
    /\ Len(last.tried) < MaxAttempts
    /\ LET i == WrapIndex(cyc.i, Len(m_loaders))
       IN  \E ok \in BOOLEAN, wraps \in Answers :
               LET r == createItemWith(LoaderAt(i), [l \in Range(m_loaders) |-> ok], wraps)
               IN  /\ Record(r)
                   /\ calls' = calls \o r.log
                   /\ IF r.item # NoItem
                      THEN /\ pc' = "done"
                           /\ cyc' = Cyc0
                           /\ last' = [last EXCEPT !.item = r.item, !.creator = r.creator,
                                                   !.tried = Append(@, i)]
                      ELSE /\ pc' = "cycle"
                           /\ cyc' = [cyc EXCEPT !.i = i + cyc.dir]
                           /\ last' = [last EXCEPT !.tried = Append(@, i)]
    /\ UNCHANGED <<plugins, m_loaders, m_disabledLoaders>>

\* ----------------------------------------------------------------- formats
Prepend(s, x) == <<x>> \o s

AppendMissingAll(formats, more) == formats \o more

\* The inner foreach of formatsToSave: append what formats does not contain.
RECURSIVE AppendMissing(_, _)
AppendMissing(formats, more) ==
    IF more = <<>> THEN formats
    ELSE AppendMissing(IF Contains(formats, Head(more)) THEN formats
                       ELSE Append(formats, Head(more)), Tail(more))

\* The outer foreach of formatsToSave over the enabled loaders: the formats
\* collected and the loaders asked.
RECURSIVE CollectFormats(_, _, _)
CollectFormats(loaders, formats, declared) ==
    IF loaders = <<>> THEN [formats |-> formats, log |-> NoCall]
    ELSE IF isLoaderEnabled(Head(loaders))
    THEN LET rest == CollectFormats(Tail(loaders),
                         AppendMissing(formats, declared[Head(loaders)]), declared)
         IN  [rest EXCEPT !.log = <<Call("formatsToSave", Head(loaders), 0, 0)>> \o @]
    ELSE CollectFormats(Tail(loaders), formats, declared)

\* formatsToSave, where declared[l] is what loader l returns from formatsToSave.
formatsToSave(declared) ==
    LET collected == CollectFormats(m_loaders, <<>>, declared).formats
        withText == IF ~Contains(collected, mimeText) THEN Prepend(collected, mimeText)
                    ELSE collected
        withNotes == IF ~Contains(withText, mimeItemNotes)
                     THEN Append(withText, mimeItemNotes) ELSE withText
    IN  IF ~Contains(withNotes, mimeItems) THEN Append(withNotes, mimeItems)
        ELSE withNotes

FormatLists == SeqsUpTo(Formats, MaxFormats)

FormatsToSave(lists) ==
    /\ pc = "idle"
    /\ \E declared \in [Range(m_loaders) -> lists] :
           /\ pc' = "done"
           /\ calls' = CollectFormats(m_loaders, <<>>, declared).log
           /\ last' = [Last0 EXCEPT !.op = "formatsToSave", !.declared = declared,
                                    !.formats = formatsToSave(declared)]
           /\ UNCHANGED <<plugins, m_loaders, m_disabledLoaders, m_loaderChildren, live,
                          connected, items, destroyedItems, cyc>>

\* ------------------------------------------------------------- persistence
Bool(b) == IF b THEN 1 ELSE 0

\* loadItems over the given loaders; loads[l] is what loader l's loadItems returns.
RECURSIVE loadItemsOver(_, _)
loadItemsOver(loaders, loads) ==
    IF loaders = <<>> THEN [ok |-> FALSE, log |-> NoCall]
    ELSE IF isLoaderEnabled(Head(loaders))
    THEN LET here == <<Call("loadItems", Head(loaders), Bool(loads[Head(loaders)]), 0)>>
         IN  IF loads[Head(loaders)] THEN [ok |-> TRUE, log |-> here]
             ELSE LET rest == loadItemsOver(Tail(loaders), loads)
                  IN  [rest EXCEPT !.log = here \o @]
    ELSE loadItemsOver(Tail(loaders), loads)

LoadItemsBackwards(loads) == loadItemsOver(Reverse(m_loaders), loads)

\* ItemFactory::loadItems: the loop over m_loaders.
loadItems(loads) == loadItemsOver(m_loaders, loads)

LoadItems ==
    /\ pc = "idle"
    /\ \E loads \in Answers :
           LET r == loadItems(loads)
           IN  /\ pc' = "done"
               /\ calls' = r.log
               /\ last' = [Last0 EXCEPT !.op = "loadItems", !.ok = r.ok]
               /\ UNCHANGED <<plugins, m_loaders, m_disabledLoaders, m_loaderChildren, live,
                              connected, items, destroyedItems, cyc>>

FileSeekSkipped(pos, target) == pos

\* file->seek(0) in saveItems.
FileSeek(pos, target) == target

\* saveItems over the given loaders, the file being at pos; a loader's
\* saveItems writes written bytes at the position it finds, and loader l's
\* returns saves[l].
RECURSIVE saveItemsOver(_, _, _, _)
saveItemsOver(loaders, pos, written, saves) ==
    IF loaders = <<>> THEN [ok |-> FALSE, pos |-> pos, log |-> NoCall]
    ELSE IF isLoaderEnabled(Head(loaders))
    THEN LET loader == Head(loaders)
             start == FileSeek(pos, 0)
             here == <<Call("saveItems", loader, Bool(saves[loader]), start)>>
         IN  IF saves[loader]
             THEN [ok |-> TRUE, pos |-> start + written, log |-> here]
             ELSE LET rest == saveItemsOver(Tail(loaders), start + written, written, saves)
                  IN  [rest EXCEPT !.log = here \o @]
    ELSE saveItemsOver(Tail(loaders), pos, written, saves)

SaveItems ==
    /\ pc = "idle"
    /\ \E pos \in 0..MaxWrite, written \in 1..MaxWrite, saves \in Answers :
           LET r == saveItemsOver(m_loaders, pos, written, saves)
           IN  /\ pc' = "done"
               /\ calls' = r.log
               /\ last' = [Last0 EXCEPT !.op = "saveItems", !.ok = r.ok, !.filePos = pos]
               /\ UNCHANGED <<plugins, m_loaders, m_disabledLoaders, m_loaderChildren, live,
                              connected, items, destroyedItems, cyc>>

\* itemsLoaded over the given loaders.
RECURSIVE itemsLoadedOver(_)
itemsLoadedOver(loaders) ==
    IF loaders = <<>> THEN NoCall
    ELSE IF isLoaderEnabled(Head(loaders))
    THEN <<Call("itemsLoaded", Head(loaders), 0, 0)>> \o itemsLoadedOver(Tail(loaders))
    ELSE itemsLoadedOver(Tail(loaders))

ItemsLoadedFirstOnly ==
    LET all == itemsLoadedOver(m_loaders) IN IF all = NoCall THEN NoCall ELSE <<Head(all)>>

\* ItemFactory::itemsLoaded: the loop over m_loaders.
itemsLoaded == itemsLoadedOver(m_loaders)

ItemsLoaded ==
    /\ pc = "idle"
    /\ pc' = "done"
    /\ calls' = itemsLoaded
    /\ last' = [Last0 EXCEPT !.op = "itemsLoaded"]
    /\ UNCHANGED <<plugins, m_loaders, m_disabledLoaders, m_loaderChildren, live,
                   connected, items, destroyedItems, cyc>>

\* ----------------------------------------------------------- specification
\* The format lists the loaders declare in the dispatch model.
DispatchFormatLists == {<<>>, <<mimeOther, mimeText>>}

FormatsToSaveDispatch == FormatsToSave(DispatchFormatLists)

Next ==
    \/ SetLoaderEnabled
    \/ SetPluginPriority
    \/ CreateItemWithLoader
    \/ CreateItem
    \/ NextItemLoader
    \/ PreviousItemLoader
    \/ OtherItemLoaderExhausted
    \/ OtherItemLoaderStep
    \/ DestroyWidget
    \/ OtherWidget
    \/ FormatsToSaveDispatch
    \/ LoadItems
    \/ SaveItems
    \/ ItemsLoaded
    \/ Returned

Spec == Init /\ [][Next]_vars

\* The ordering alone, over every plugin directory: names and priorities are
\* drawn from PluginNames and Priorities.
InitSort ==
    /\ plugins \in [Modules -> PluginFiles]
    /\ InitFactory

NextSort ==
    \/ SetPluginPriority
    \/ Returned

SpecSort == InitSort /\ [][NextSort]_vars

\* formatsToSave alone, over every list of formats a loader may declare.
FormatsToSaveAny == FormatsToSave(FormatLists)

NextFormats ==
    \/ SetLoaderEnabled
    \/ FormatsToSaveAny
    \/ Returned

SpecFormats == Init /\ [][NextFormats]_vars

\* ------------------------------------------------------------------ claims
\* The enabled loaders in collection order, read off the state.
EnabledInOrder == SelectSeq(m_loaders, LAMBDA l : l \notin m_disabledLoaders)

\* The recorded invocations of one plugin operation, in order.
CallsOf(op) == SelectSeq(calls, LAMBDA c : c.op = op)

\* The invocations c went down the enabled loaders in order, each but the
\* last having returned null / false.
FirstToSucceed(c) ==
    /\ Len(c) <= Len(EnabledInOrder)
    /\ \A k \in 1..Len(c) :
        /\ c[k].loader = EnabledInOrder[k]
        /\ k < Len(c) => c[k].ret = 0

Cycling(dir) == last.op = "otherItemLoader" /\ last.dir = dir /\ last.loader # None

\* C1: nextItemLoader for an item whose owner is at position i of n loaders
\* attempts creation at i+1, i+2, ..., i+n-1 (mod n) in that order, stops at
\* the first non-null item, and never attempts position i.
C1_NextVisitsOthersInOrder ==
    Cycling(1) =>
        LET n == Len(m_loaders)
            i == IndexOf(m_loaders, last.loader)
        IN  /\ Len(last.tried) <= n - 1
            /\ \A k \in 1..Len(last.tried) : last.tried[k] = (i + k) % n
            /\ \A k \in 1..Len(last.tried) : last.tried[k] # i
            /\ (pc = "done" /\ last.item = NoItem) => Len(last.tried) = n - 1

\* C2: otherItemLoader terminates: in either direction, once the n-1 other
\* loaders have been attempted without an item the walk is back at the start
\* position, so the call returns no item.
C2_WalkEndsAtStart ==
    (pc = "cycle" /\ Len(last.tried) >= Len(m_loaders) - 1) => cyc.i = cyc.currentIndex

\* C3: the first element of the list formatsToSave returns is "text/plain".
C3_TextPlainFirst ==
    last.op = "formatsToSave" => Head(last.formats) = mimeText

Mandatory == {mimeText, mimeItemNotes, mimeItems}

\* Everything the enabled loaders declared, loader by loader in collection order.
RECURSIVE DeclaredByEnabled(_)
DeclaredByEnabled(k) ==
    IF k = 0 THEN <<>>
    ELSE DeclaredByEnabled(k - 1) \o last.declared[EnabledInOrder[k]]

\* s without the repeats of an earlier element and without the mandatory formats.
FirstSeenOthers(s) ==
    LET keep == {k \in 1..Len(s) : s[k] \notin Mandatory /\ \A j \in 1..(k - 1) : s[j] # s[k]}
        nth(m) == CHOOSE k \in keep : Cardinality({j \in keep : j < k}) = m - 1
    IN  [m \in 1..Cardinality(keep) |-> s[nth(m)]]

\* C4: formatsToSave returns a list without duplicates that holds "text/plain"
\* and both internal markers; the rest of it is the first-seen-order union of
\* the formats declared by the enabled loaders only.
C4_FormatsUnion ==
    last.op = "formatsToSave" =>
        LET f == last.formats
        IN  /\ \A a, b \in 1..Len(f) : a # b => f[a] # f[b]
            /\ Mandatory \subseteq Range(f)
            /\ SelectSeq(f, LAMBDA x : x \notin Mandatory)
                   = FirstSeenOthers(DeclaredByEnabled(Len(EnabledInOrder)))

C4_Witness ==
    /\ last.op = "formatsToSave"
    /\ \E d \in m_disabledLoaders : Contains(last.declared[d], mimeHtml)
    /\ ~Contains(last.formats, mimeHtml)
    /\ \E l \in Range(EnabledInOrder) : last.declared[l] = <<mimeOther, mimeOther>>
    /\ Len(last.formats) = 4

\* C5: no plugin operation is invoked on a loader that is disabled.
C5_DisabledNeverInvoked ==
    \A k \in 1..Len(calls) : calls[k].loader \notin m_disabledLoaders

C5_Witness ==
    /\ last.op = "otherItemLoader"
    /\ pc = "done"
    /\ last.item # NoItem
    /\ m_disabledLoaders # {}
    /\ Len(last.tried) = 2
    /\ Len(CallsOf("transform")) >= 1

\* C6: setLoaderEnabled(loader, enabled) changes the membership of that one
\* loader in the disabled set and nothing else: not the collection, not the
\* ownership map, not the enablement of any other loader.
C6_SetLoaderEnabledFrame ==
    [][(pc = "idle" /\ last'.op = "setLoaderEnabled") =>
          /\ m_loaders' = m_loaders
          /\ m_loaderChildren' = m_loaderChildren
          /\ (last'.loader \in m_disabledLoaders') = ~last'.enabled
          /\ m_disabledLoaders' \ {last'.loader} = m_disabledLoaders \ {last'.loader}]_vars

C6_Witness ==
    /\ last.op = "setLoaderEnabled"
    /\ last.enabled
    /\ m_disabledLoaders # {}
    /\ DOMAIN m_loaderChildren # {}

\* C7: createItem(index, parent) always returns an item, made by the first
\* loader in collection order that is enabled and whose create returns an
\* item; the built-in DummyItem makes it iff every loader is disabled or
\* declines; no loader after the successful one is asked.
C7_FirstWillingLoaderCreates ==
    last.op = "createItem" =>
        LET c == CallsOf("create")
        IN  /\ last.item # NoItem
            /\ FirstToSucceed(c)
            /\ last.creator # None =>
                   /\ c # <<>>
                   /\ c[Len(c)].loader = last.creator
                   /\ c[Len(c)].ret # NoItem
            /\ last.creator = None <=>
                   /\ Len(c) = Len(EnabledInOrder)
                   /\ \A k \in 1..Len(c) : c[k].ret = NoItem

C7_Witness ==
    /\ last.op = "createItem"
    /\ Len(m_loaders) = 3
    /\ m_loaders[1] \in m_disabledLoaders
    /\ last.creator = m_loaders[3]
    /\ Len(CallsOf("create")) = 2

C7_WitnessFallback ==
    /\ last.op = "createItem"
    /\ last.creator = None
    /\ last.item # NoItem

\* C8: once the widget of an item that createItem returned is destroyed, the
\* ownership map holds no entry for it.
C8_DestroyedItemsForgotten ==
    \A w \in destroyedItems : w \notin DOMAIN m_loaderChildren

C8_Witness ==
    /\ destroyedItems # {}
    /\ \E w \in live : w \in DOMAIN m_loaderChildren /\ m_loaderChildren[w] # None

Rank(l) == IndexOf(last.names, Name(l))

\* C9: after setPluginPriority(L) every loader named in L precedes every
\* loader not named in L, named loaders of different rank are in the order of
\* their first index in L, and unnamed loaders of different priority are in
\* descending priority order.
C9_NameOrder ==
    last.op = "setPluginPriority" =>
        \A a, b \in 1..Len(m_loaders) : a < b =>
            LET x == m_loaders[a]
                y == m_loaders[b]
            IN  /\ ~(Rank(x) = -1 /\ Rank(y) # -1)
                /\ (Rank(x) # -1 /\ Rank(y) # -1 /\ Rank(x) # Rank(y)) => Rank(x) < Rank(y)
                /\ (Rank(x) = -1 /\ Rank(y) = -1 /\ Priority(x) # Priority(y))
                       => Priority(x) > Priority(y)

C9_Witness ==
    /\ last.op = "setPluginPriority"
    /\ Len(m_loaders) = 3
    /\ Rank(m_loaders[1]) = 0
    /\ Rank(m_loaders[2]) = -1
    /\ Rank(m_loaders[3]) = -1
    /\ Priority(m_loaders[1]) < Priority(m_loaders[2])
    /\ Priority(m_loaders[2]) > Priority(m_loaders[3])

\* C10: every saveItems of a loader is entered with the file at position 0;
\* the enabled loaders are tried in collection order, none after the first
\* that reports success; the result is success iff some loader reported it.
C10_SaveSeeksToStart ==
    last.op = "saveItems" =>
        /\ \A k \in 1..Len(calls) : calls[k].op = "saveItems" /\ calls[k].arg = 0
        /\ FirstToSucceed(calls)
        /\ last.ok <=> (calls # <<>> /\ calls[Len(calls)].ret = 1)
        /\ ~last.ok => Len(calls) = Len(EnabledInOrder)

C10_Witness ==
    /\ last.op = "saveItems"
    /\ last.filePos > 0
    /\ Len(calls) = 2
    /\ calls[1].ret = 0
    /\ calls[2].ret = 1
    /\ m_disabledLoaders # {}

\* C11: loadItems asks the enabled loaders in collection order and stops at
\* the first that succeeds; it returns success exactly when the last loader it
\* asked succeeded, and failure only after asking every enabled loader
\* (none, when no loader is enabled).
C11_LoadItemsFirstSuccess ==
    last.op = "loadItems" =>
        /\ FirstToSucceed(calls)
        /\ \A k \in 1..Len(calls) : calls[k].op = "loadItems"
        /\ last.ok <=> (calls # NoCall /\ calls[Len(calls)].ret = 1)
        /\ ~last.ok => Len(calls) = Len(EnabledInOrder)

\* loadItems asked an enabled loader that failed, then one that succeeded, and
\* never reached a third enabled loader.
C11_Witness ==
    /\ last.op = "loadItems"
    /\ last.ok
    /\ Len(calls) = 2
    /\ Len(EnabledInOrder) = 3

\* C12: itemsLoaded notifies every enabled loader exactly once, in collection
\* order, and no disabled loader.
C12_ItemsLoadedNotifiesAll ==
    last.op = "itemsLoaded" =>
        /\ Len(calls) = Len(EnabledInOrder)
        /\ \A k \in 1..Len(calls) :
               calls[k].op = "itemsLoaded" /\ calls[k].loader = EnabledInOrder[k]

\* itemsLoaded with two enabled loaders and a disabled one between them.
C12_Witness ==
    /\ last.op = "itemsLoaded"
    /\ Len(calls) = 2
    /\ Len(m_loaders) = 3
    /\ m_loaders[2] \in m_disabledLoaders

\* C13: a cycling request, next or previous, for a widget whose owner in the
\* map is the null loader (an item of the fallback renderer, or a widget the
\* map did not hold) returns no item and attempts no loader's create.
C13_NoOwnerNoCycling ==
    (/\ last.op = "otherItemLoader"
     /\ last.w \in DOMAIN m_loaderChildren
     /\ m_loaderChildren[last.w] = None)
        => /\ pc = "done"
           /\ last.item = NoItem
           /\ calls = NoCall
           /\ last.tried = <<>>

\* A cycling request for an item the fallback renderer made, with an enabled
\* loader in the collection, after an earlier request for a widget createItem
\* never returned.
C13_Witness ==
    /\ last.op = "otherItemLoader"
    /\ pc = "done"
    /\ last.w \in items
    /\ m_loaderChildren[last.w] = None
    /\ EnabledInOrder # <<>>
    /\ \E v \in live \ items : v \in DOMAIN m_loaderChildren

\* C14: previousItemLoader for an item owned by the loader at position i of n
\* attempts positions i-1, i-2, ..., i-n+1 (mod n) in that order, stops at the
\* first that returns an item, and never attempts position i.
C14_PreviousVisitsOthersInOrder ==
    Cycling(-1) =>
        LET n == Len(m_loaders)
            i == IndexOf(m_loaders, last.loader)
        IN  /\ Len(last.tried) <= n - 1
            /\ \A k \in 1..Len(last.tried) : last.tried[k] = (i + k * (n - 1)) % n
            /\ \A k \in 1..Len(last.tried) : last.tried[k] # i
            /\ (pc = "done" /\ last.item = NoItem) => Len(last.tried) = n - 1
            /\ (pc = "done" /\ last.item # NoItem) =>
                   /\ last.tried # <<>>
                   /\ last.creator = LoaderAt(last.tried[Len(last.tried)])

\* What a transform step leaves: the item the loader returned, or the item it
\* was given when it declined.
Result(c) == IF c.ret # NoItem THEN c.ret ELSE c.arg

\* The latest call returned an item to its caller.
ReturnedItem ==
    /\ pc = "done"
    /\ last.op \in {"createItem", "createItemWith", "otherItemLoader"}
    /\ last.item # NoItem

\* C15: whenever an item is returned (by either createItem or by cycling,
\* made by a loader or by the fallback renderer), transform was invoked on
\* every enabled loader exactly once, in collection order and after every
\* create; the first is given the created item, each next one what the step
\* before left, and the item returned is what the last step left.
C15_TransformChain ==
    ReturnedItem =>
        LET t == CallsOf("transform")
            c == CallsOf("create")
        IN  /\ calls = c \o t
            /\ Len(t) = Len(EnabledInOrder)
            /\ \A k \in 1..Len(t) : t[k].loader = EnabledInOrder[k] /\ t[k].arg # NoItem
            /\ \A k \in 1..(Len(t) - 1) : t[k + 1].arg = Result(t[k])
            /\ (c # NoCall /\ c[Len(c)].ret # NoItem /\ t # NoCall)
                   => t[1].arg = c[Len(c)].ret
            /\ (c # NoCall /\ c[Len(c)].ret # NoItem /\ t = NoCall)
                   => last.item = c[Len(c)].ret
            /\ t # NoCall => last.item = Result(t[Len(t)])

\* An item made by the second loader of the collection: the first loader's
\* transform replaced it, the second loader's transform declined, and the
\* replacement was returned.
C15_Witness ==
    /\ ReturnedItem
    /\ Len(m_loaders) >= 2
    /\ last.creator = m_loaders[2]
    /\ Len(CallsOf("transform")) = 2
    /\ CallsOf("transform")[1].ret # NoItem
    /\ CallsOf("transform")[1].ret # CallsOf("transform")[1].arg
    /\ CallsOf("transform")[2].ret = NoItem
    /\ last.item = CallsOf("transform")[1].ret

\* C16: createItem(loader, index, parent) with an explicit loader that is
\* disabled, or whose create returns null, returns no item and leaves the
\* ownership map, the collection and the disabled set as they were; for a
\* disabled loader neither create nor any transform is invoked.
C16_FailedCreateChangesNothing ==
    [][(/\ pc = "idle"
        /\ last'.op = "createItemWith"
        /\ last'.loader # None
        /\ \/ last'.loader \in m_disabledLoaders
           \/ \E k \in 1..Len(calls') :
                  /\ calls'[k].op = "create"
                  /\ calls'[k].loader = last'.loader
                  /\ calls'[k].ret = NoItem)
       => /\ last'.item = NoItem
          /\ m_loaderChildren' = m_loaderChildren
          /\ m_loaders' = m_loaders
          /\ m_disabledLoaders' = m_disabledLoaders
          /\ last'.loader \in m_disabledLoaders => calls' = NoCall]_vars

\* createItem was called with a disabled loader while the map held an entry
\* and another loader was enabled.
C16_Witness ==
    /\ pc = "done"
    /\ last.op = "createItemWith"
    /\ last.loader \in m_disabledLoaders
    /\ last.item = NoItem
    /\ EnabledInOrder # <<>>
    /\ DOMAIN m_loaderChildren # {}

\* createItem was called with an enabled loader whose create returned null.
C16_WitnessDeclined ==
    /\ pc = "done"
    /\ last.op = "createItemWith"
    /\ last.loader \notin m_disabledLoaders
    /\ calls = <<Call("create", last.loader, NoItem, NoItem)>>
    /\ DOMAIN m_loaderChildren # {}

\* The loader whose create made the item the latest call returned: the one
\* of its last create call when that returned an item, the null loader when
\* DummyItem was constructed instead.
CreatorInLog ==
    LET c == CallsOf("create")
    IN  IF c # NoCall /\ c[Len(c)].ret # NoItem THEN c[Len(c)].loader ELSE None

\* C17: when createItem returns an item, the map holds for the item's widget
\* (the one left by the transforms) the loader whose create made the item, or
\* the null loader for a DummyItem; and the entry of an item stays as it is
\* for as long as the item's widget is not destroyed.
C17_OwnershipRecordsCreator ==
    [][/\ (pc # "done" /\ ReturnedItem')
           => /\ last'.item \in DOMAIN m_loaderChildren'
              /\ m_loaderChildren'[last'.item] = CreatorInLog'
       /\ \A w \in items \cap items' :
              w \in DOMAIN m_loaderChildren
                  => /\ w \in DOMAIN m_loaderChildren'
                     /\ m_loaderChildren'[w] = m_loaderChildren[w]]_vars

\* An item made by the last of two enabled loaders and replaced by the
\* transform of the first was returned under the replacement's widget and
\* recorded for its maker.
C17_Witness ==
    /\ ReturnedItem
    /\ Len(EnabledInOrder) = 2
    /\ CreatorInLog = EnabledInOrder[2]
    /\ CallsOf("create")[Len(CallsOf("create"))].ret # last.item
    /\ CallsOf("transform")[1].ret = last.item
    /\ m_loaderChildren[last.item] = CreatorInLog

\* C18: in every reachable state the collection holds each module that
\* loaded and implements the loader interface exactly once, and no module
\* that failed to load or does not implement it; so every non-null owner in
\* the map is in the collection and the owner's index found by
\* otherItemLoader is never -1.
C18_CollectionIsTheLoadedPlugins ==
    /\ Range(m_loaders) = {m \in Modules : plugins[m].kind = "loader"}
    /\ Len(m_loaders) = Cardinality(Range(m_loaders))
    /\ \A w \in DOMAIN m_loaderChildren :
           m_loaderChildren[w] # None => Contains(m_loaders, m_loaderChildren[w])
    /\ pc = "cycle" =>
           /\ cyc.currentIndex # -1
           /\ LoaderAt(cyc.currentIndex) = m_loaderChildren[cyc.w]

\* otherItemLoader is in its loop for an item of the second of two loaders,
\* a third file having failed to load or to conform, after setPluginPriority
\* put the loader of lower priority first.
C18_Witness ==
    /\ pc = "cycle"
    /\ cyc.currentIndex = 1
    /\ Len(m_loaders) = 2
    /\ \E m \in Modules : plugins[m].kind # "loader"
    /\ Priority(m_loaders[1]) < Priority(m_loaders[2])

\* The comparator of setPluginPriority(names) ranks neither loader before the other.
Equivalent(names, x, y) == ~PluginSorter(names, x, y) /\ ~PluginSorter(names, y, x)

\* C19: both orderings are stable: after the priority ordering of loadPlugins
\* two loaders of equal priority are in discovery order, and
\* setPluginPriority(names) keeps the relative order of two loaders its
\* comparator ranks as equivalent.
C19_StableSorts ==
    /\ \A a, b \in 1..Len(m_loaders) :
           (a < b /\ Priority(m_loaders[a]) = Priority(m_loaders[b]))
               => m_loaders[a] < m_loaders[b]
    /\ [][(pc = "idle" /\ last'.op = "setPluginPriority")
              => \A x, y \in Range(m_loaders) :
                     (/\ Equivalent(last'.names, x, y)
                      /\ IndexOf(m_loaders, x) < IndexOf(m_loaders, y))
                         => IndexOf(m_loaders', x) < IndexOf(m_loaders', y)]_vars

\* C20: every key of the ownership map is the widget of an item createItem
\* returned and that still exists; nothing else adds an entry, so no entry
\* outlives its widget.
C20_EntriesOnlyForItems ==
    \A w \in DOMAIN m_loaderChildren : w \in items /\ w \in live

====
